---- MODULE Spec2Model ----
(***************************************************************************)
(* Cinephile-Online: the data-access layer (src/data_manager.py) driven by *)
(* the Flask routes (src/app.py) over the three tables of src/models.py.   *)
(*                                                                         *)
(* The store is SQLite (app.py:25) as SQLAlchemy opens it: rowids are      *)
(* max(rowid)+1, primary keys and NOT NULL are enforced, FOREIGN KEY       *)
(* clauses are declared but not enforced (no PRAGMA foreign_keys=ON is     *)
(* issued anywhere), and text equality is case-sensitive.                  *)
(***************************************************************************)
EXTENDS Integers, Sequences, FiniteSets, Bags, TLC

VARIABLES User, Movie, FavouriteMovie, last, tick, threads

vars == <<User, Movie, FavouriteMovie, last, tick, threads>>

(***************************************************************************)
(* Bounds of the model.                                                    *)
(***************************************************************************)
MaxUsers == 2
MaxMovieId == 2
MaxThreads == 2

\* Python's None and an present value: <<>> and <<x>>.
None == <<>>
Some(x) == <<x>>

\* The ids a URL can carry (<int:user_id>, <int:movie_id>): created or not.
UserIds == 1..MaxUsers
MovieIds == 1..MaxMovieId

\* Texts a client sends: user names, movie titles to add, new titles.
Names == {"Alice", ""}
Titles == {"inception", "Inception", "Matrix", "Zzyzx"}
NewTitles == {"Matrix"}

(***************************************************************************)
(* The metadata provider (OMDb, ?t=<title>): it matches the requested      *)
(* title ignoring case and answers with its own spelling of the title.     *)
(***************************************************************************)
Fold(t) ==
  CASE t = "Inception" -> "inception"
    [] t = "Matrix" -> "matrix"
    [] OTHER -> t

Catalogue ==
  { [Response |-> "True", Title |-> "Inception", Director |-> "Christopher Nolan",
     Year |-> "2010", Poster |-> "https://img/inception.jpg"],
    [Response |-> "True", Title |-> "Matrix", Director |-> "Lana Wachowski",
     Year |-> "1999", Poster |-> "https://img/matrix.jpg"] }

NotFoundPayload == [Response |-> "False"]

\* What r.get(...).json() can be for a requested title.
OmdbPayloads(movie) ==
  LET hits == {e \in Catalogue : Fold(e.Title) = Fold(movie)}
  IN  IF hits = {} THEN {NotFoundPayload} ELSE hits

\* The payload, or None on an HTTP or request error.
\* `http_ok` is whether the request came back with a 2xx status in time.
_make_omdb_request(payload, http_ok) ==
  IF http_ok THEN Some(payload) ELSE None

(***************************************************************************)
(* The store.                                                              *)
(***************************************************************************)
Max(S) == CHOOSE x \in S : \A y \in S : y <= x

\* SQLite's rowid for an INTEGER PRIMARY KEY column without AUTOINCREMENT.
NextId(table) == IF DOMAIN table = {} THEN 1 ELSE Max(DOMAIN table) + 1

\* A column of INTEGER affinity stores a text that looks like an integer as one.
IntegerAffinity(text) ==
  CASE text = "2010" -> 2010
    [] text = "1999" -> 1999
    [] OTHER -> 0

Fav(user_id, movie_id) == [user_id |-> user_id, movie_id |-> movie_id]

\* The rows of user_favourite_movies that reference a movie.
LinksOf(favs, movie_id) == {f \in BagToSet(favs) : f.movie_id = movie_id}

\* DELETE FROM user_favourite_movies WHERE <row>: every copy of the row.
DeleteRows(favs, rows) ==
  [f \in BagToSet(favs) \ rows |-> favs[f]]

\* DELETE FROM movies WHERE id = movie_id
DeleteMovieRow(table, movie_id) ==
  [i \in DOMAIN table \ {movie_id} |-> table[i]]

Store == [User |-> User, Movie |-> Movie, FavouriteMovie |-> FavouriteMovie]

(***************************************************************************)
(* DataManager (src/data_manager.py).  Each operator takes the store S and *)
(* what the environment decides (the provider's answer, whether the        *)
(* database accepts a commit) and yields the store afterwards with the     *)
(* value returned.                                                         *)
(***************************************************************************)

\* The Movie object a caller gets back: the row and its id.
MovieObject(table, id) == Some([id |-> id, title |-> table[id].title])

create_user(S, name, db_ok) ==
  IF db_ok
  THEN LET id == NextId(S.User)
       IN  [S |-> [S EXCEPT !.User = @ @@ (id :> [user_name |-> name])],
            ret |-> Some(id)]
  ELSE [S |-> S, ret |-> None]

get_users(S) == [i \in 1..Cardinality(DOMAIN S.User) |->
                   CHOOSE id \in DOMAIN S.User :
                     Cardinality({j \in DOMAIN S.User : j < id}) = i - 1]

get_user_by_id(S, user_id) ==
  IF user_id \in DOMAIN S.User THEN Some(S.User[user_id]) ELSE None

\* INSERT INTO user_favourite_movies: the composite primary key (user_id,
\* movie_id) refuses a second copy of a row (IntegrityError, None here); the
\* FOREIGN KEY clauses are not enforced, so any ids are accepted.
InsertFavourite(favs, row) ==
  IF BagIn(row, favs) THEN None ELSE Some(favs (+) SetToBag({row}))

\* add_movie, lines 139-163: link the movie to the user unless already linked.
add_favourite_link(S, user_id, movie_id, link_ok) ==
  LET copies == CopiesIn(Fav(user_id, movie_id), S.FavouriteMovie)
      inserted == InsertFavourite(S.FavouriteMovie, Fav(user_id, movie_id))
  IN  IF copies > 1
      THEN \* scalar_one_or_none raises MultipleResultsFound: caught, rolled back
           [S |-> S, ret |-> None]
      ELSE IF copies = 1
      THEN [S |-> S, ret |-> MovieObject(S.Movie, movie_id)]
      ELSE IF link_ok /\ inserted # None
      THEN [S |-> [S EXCEPT !.FavouriteMovie = inserted[1]],
            ret |-> MovieObject(S.Movie, movie_id)]
      ELSE [S |-> S, ret |-> None]

\* fetch_new_movie without the test of Response, the title falling back to
\* the one asked for.
fetch_new_movie_unchecked(S, movie_title, payload, http_ok, movie_ok) ==
  LET movie_data == _make_omdb_request(payload, http_ok)
      Get(key, default) ==
        IF key \in DOMAIN movie_data[1] THEN movie_data[1][key] ELSE default
  IN  IF movie_data = None
      THEN [S |-> S, id |-> None, omdb |-> "None"]
      ELSE IF ~movie_ok
      THEN [S |-> S, id |-> None, omdb |-> IF movie_data[1].Response = "False"
                                           THEN "False" ELSE "True"]
      ELSE
        LET id == NextId(S.Movie)
            movie == [title |-> Get("Title", movie_title),
                      director |-> Get("Director", ""),
                      year_of_release |-> IntegerAffinity(Get("Year", "")),
                      poster_url |-> Get("Poster", "")]
        IN  [S |-> [S EXCEPT !.Movie = @ @@ (id :> movie)], id |-> Some(id),
             omdb |-> IF movie_data[1].Response = "False" THEN "False" ELSE "True"]

\* fetch_new_movie as an upsert on the title: a row that already carries the
\* provider's title is taken instead of a second one being inserted.
fetch_new_movie_upsert(S, movie_title, payload, http_ok, movie_ok) ==
  LET movie_data == _make_omdb_request(payload, http_ok)
  IN  IF movie_data = None
      THEN [S |-> S, id |-> None, omdb |-> "None"]
      ELSE IF movie_data[1].Response = "False"
      THEN [S |-> S, id |-> None, omdb |-> "False"]
      ELSE IF ~movie_ok
      THEN [S |-> S, id |-> None, omdb |-> "True"]
      ELSE
        LET same == {i \in DOMAIN S.Movie : S.Movie[i].title = movie_data[1].Title}
            id == NextId(S.Movie)
            movie == [title |-> movie_data[1].Title,
                      director |-> movie_data[1].Director,
                      year_of_release |-> IntegerAffinity(movie_data[1].Year),
                      poster_url |-> movie_data[1].Poster]
        IN  IF same # {}
            THEN [S |-> S, id |-> Some(CHOOSE i \in same : TRUE), omdb |-> "True"]
            ELSE [S |-> [S EXCEPT !.Movie = @ @@ (id :> movie)], id |-> Some(id),
                  omdb |-> "True"]

\* add_movie, lines 117-137: ask the provider and insert the movie it names.
\* `omdb` is what the provider call came to: "None" (request error), "False"
\* (no such title) or "True".
fetch_new_movie(S, movie_title, payload, http_ok, movie_ok) ==
  LET movie_data == _make_omdb_request(payload, http_ok)
  IN  IF movie_data = None
      THEN [S |-> S, id |-> None, omdb |-> "None"]
      ELSE IF movie_data[1].Response = "False"
      THEN [S |-> S, id |-> None, omdb |-> "False"]
      ELSE IF ~movie_ok
      THEN [S |-> S, id |-> None, omdb |-> "True"]
      ELSE
        LET id == NextId(S.Movie)
            movie == [title |-> movie_data[1].Title,
                      director |-> movie_data[1].Director,
                      year_of_release |-> IntegerAffinity(movie_data[1].Year),
                      poster_url |-> movie_data[1].Poster]
        IN  [S |-> [S EXCEPT !.Movie = @ @@ (id :> movie)], id |-> Some(id),
             omdb |-> "True"]

add_movie(S, user_id, movie_title, payload, http_ok, movie_ok, link_ok) ==
  LET existing == {i \in DOMAIN S.Movie : S.Movie[i].title = movie_title}
  IN  IF Cardinality(existing) > 1
      THEN \* scalar_one_or_none raises MultipleResultsFound, outside any try
           [S |-> S, ret |-> None, raised |-> TRUE, omdb |-> "not called"]
      ELSE IF existing # {}
      THEN LET existing_movie == CHOOSE i \in existing : TRUE
           IN  add_favourite_link(S, user_id, existing_movie, link_ok)
                 @@ [raised |-> FALSE, omdb |-> "not called"]
      ELSE
        LET new == fetch_new_movie(S, movie_title, payload, http_ok, movie_ok)
        IN  IF new.id = None
            THEN [S |-> S, ret |-> None, raised |-> FALSE, omdb |-> new.omdb]
            ELSE add_favourite_link(new.S, user_id, new.id[1], link_ok)
                   @@ [raised |-> FALSE, omdb |-> new.omdb]

\* update_movie whose UPDATE has no WHERE: every row takes the new title.
update_movie_every_row(S, movie_id, new_title, db_ok) ==
  IF ~db_ok \/ DOMAIN S.Movie = {}
  THEN [S |-> S, ret |-> FALSE]
  ELSE [S |-> [S EXCEPT !.Movie = [i \in DOMAIN @ |-> [@[i] EXCEPT !.title = new_title]]],
        ret |-> TRUE]

\* update_movie without the commit: the UPDATE is undone when the request ends.
update_movie_uncommitted(S, movie_id, new_title, db_ok) ==
  IF ~db_ok \/ movie_id \notin DOMAIN S.Movie
  THEN [S |-> S, ret |-> FALSE]
  ELSE [S |-> S, ret |-> TRUE]

update_movie(S, movie_id, new_title, db_ok) ==
  IF ~db_ok \/ movie_id \notin DOMAIN S.Movie
  THEN [S |-> S, ret |-> FALSE]
  ELSE [S |-> [S EXCEPT !.Movie[movie_id].title = new_title], ret |-> TRUE]

\* delete_movie without the clean-up of lines 218-224: the Movie row is kept.
delete_movie_keeps_movie(S, user_id, movie_id, db_ok) ==
  LET rowcount == CopiesIn(Fav(user_id, movie_id), S.FavouriteMovie)
      favs == DeleteRows(S.FavouriteMovie, {Fav(user_id, movie_id)})
  IN  IF ~db_ok \/ rowcount = 0
      THEN [S |-> S, ret |-> FALSE]
      ELSE [S |-> [S EXCEPT !.FavouriteMovie = favs], ret |-> TRUE]

\* delete_movie whose DELETE is not scoped to the user: every link to the
\* movie goes, and the movie with them.
delete_movie_by_movie_id(S, user_id, movie_id, db_ok) ==
  LET rows == LinksOf(S.FavouriteMovie, movie_id)
  IN  IF ~db_ok \/ rows = {}
      THEN [S |-> S, ret |-> FALSE]
      ELSE [S |-> [S EXCEPT !.FavouriteMovie = DeleteRows(@, rows),
                            !.Movie = DeleteMovieRow(@, movie_id)],
            ret |-> TRUE]

\* delete_movie that commits the unlink on its own before the clean-up of
\* the movie: a database error in the clean-up returns False with the link
\* already gone.
delete_movie_unlink_committed(S, user_id, movie_id, db_ok) ==
  LET rowcount == CopiesIn(Fav(user_id, movie_id), S.FavouriteMovie)
      favs == DeleteRows(S.FavouriteMovie, {Fav(user_id, movie_id)})
      is_favorited_by_others == LinksOf(favs, movie_id) # {}
  IN  IF rowcount = 0
      THEN [S |-> S, ret |-> FALSE]
      ELSE IF ~db_ok
           THEN [S |-> [S EXCEPT !.FavouriteMovie = favs], ret |-> FALSE]
           ELSE [S |-> [S EXCEPT !.FavouriteMovie = favs,
                                 !.Movie = IF is_favorited_by_others THEN @
                                           ELSE DeleteMovieRow(@, movie_id)],
                 ret |-> TRUE]

\* delete_movie whose DELETE is not scoped to the movie: every link of the
\* user goes.
delete_movie_by_user_id(S, user_id, movie_id, db_ok) ==
  LET rowcount == CopiesIn(Fav(user_id, movie_id), S.FavouriteMovie)
      rows == {f \in BagToSet(S.FavouriteMovie) : f.user_id = user_id}
      favs == DeleteRows(S.FavouriteMovie, rows)
      is_favorited_by_others == LinksOf(favs, movie_id) # {}
  IN  IF ~db_ok \/ rowcount = 0
      THEN [S |-> S, ret |-> FALSE]
      ELSE [S |-> [S EXCEPT !.FavouriteMovie = favs,
                            !.Movie = IF is_favorited_by_others THEN @
                                      ELSE DeleteMovieRow(@, movie_id)],
            ret |-> TRUE]

delete_movie(S, user_id, movie_id, db_ok) ==
  LET rowcount == CopiesIn(Fav(user_id, movie_id), S.FavouriteMovie)
      favs == DeleteRows(S.FavouriteMovie, {Fav(user_id, movie_id)})
      is_favorited_by_others == LinksOf(favs, movie_id) # {}
  IN  IF ~db_ok \/ rowcount = 0
      THEN [S |-> S, ret |-> FALSE]
      ELSE [S |-> [S EXCEPT !.FavouriteMovie = favs,
                            !.Movie = IF is_favorited_by_others THEN @
                                      ELSE DeleteMovieRow(@, movie_id)],
            ret |-> TRUE]

\* ORDER BY title under SQLite's BINARY collation: byte order, so capitals
\* come before small letters and the empty text first.
TitleRank(t) ==
  CASE t = "" -> 0
    [] t = "Inception" -> 1
    [] t = "Matrix" -> 2
    [] t = "Zzyzx" -> 3
    [] t = "inception" -> 4

\* get_movies: the user's movies (inner join on the links), by title; rows of
\* equal title come in either order.
get_movies(S, user_id) ==
  LET ids == {f.movie_id : f \in {g \in BagToSet(S.FavouriteMovie) :
                                   g.user_id = user_id /\ g.movie_id \in DOMAIN S.Movie}}
      n == Cardinality(ids)
  IN  {[i \in 1..n |-> [id |-> q[i], title |-> S.Movie[q[i]].title]] :
         q \in {p \in [1..n -> ids] :
                  /\ \A i, j \in 1..n : i # j => p[i] # p[j]
                  /\ \A i, j \in 1..n : i < j =>
                        TitleRank(S.Movie[p[i]].title) <= TitleRank(S.Movie[p[j]].title)}}

(***************************************************************************)
(* The routes (src/app.py).  `last` is the request just served: what was   *)
(* asked, what the DataManager returned and the HTTP status answered.      *)
(* `tick` flips with every request served.  `db_error` is whether the      *)
(* database raised while update_movie ran.                                 *)
(***************************************************************************)

\* request.get_json() and data.get(field): the body is not JSON (None), or
\* it is an object without the field (Some(None)) or with it.
Bodies(field_values) ==
  {None} \cup {Some(v) : v \in {None} \cup {Some(x) : x \in field_values}}

\* What can go wrong outside the program while add_movie runs: nothing, the
\* provider request, the commit of the new movie, the commit of the link.
\* The first fault ends the call, so one fault per call covers every run.
Faults == {"none", "omdb", "movie_commit", "link_commit"}

Request(op, user_id, movie_id, text) ==
  [op |-> op, user_id |-> user_id, movie_id |-> movie_id, text |-> text,
   called |-> FALSE, ok |-> FALSE, movie |-> None, omdb |-> "not called",
   raised |-> FALSE, db_error |-> FALSE, rows |-> <<>>, http |-> 400]

Serve(S, request) ==
  /\ DOMAIN S.User \subseteq UserIds
  /\ DOMAIN S.Movie \subseteq MovieIds
  /\ User' = S.User
  /\ Movie' = S.Movie
  /\ FavouriteMovie' = S.FavouriteMovie
  /\ last' = request
  /\ tick' = 1 - tick
  /\ threads' = threads

\* The worker threads of the server (app.run serves each request in its own
\* thread, each with its own session) and what one holds between two
\* statements of add_movie; `pc` is the statement it runs next.
Threads == 1..MaxThreads
IdleThread ==
  [pc |-> "idle", op |-> "none", user_id |-> 0, movie_title |-> "",
   existing_movie |-> None, movie |-> None, ret |-> None, raised |-> FALSE]

Init ==
  /\ User = <<>>
  /\ Movie = <<>>
  /\ FavouriteMovie = EmptyBag
  /\ last = Request("start", 0, 0, None)
  /\ tick = 0
  /\ threads = [t \in Threads |-> IdleThread]

\* GET /
home ==
  Serve(Store, [Request("home", 0, 0, None) EXCEPT
                  !.called = TRUE, !.ok = TRUE, !.rows = get_users(Store),
                  !.http = 200])

\* POST /users
users ==
  \E body \in Bodies(Names), db_ok \in BOOLEAN :
    IF body = None \/ body[1] = None
    THEN Serve(Store, Request("users", 0, 0, None))
    ELSE LET name == body[1][1]
             new_user == create_user(Store, name, db_ok)
         IN  Serve(new_user.S, [Request("users", 0, 0, Some(name)) EXCEPT
                                  !.called = TRUE, !.ok = (new_user.ret # None),
                                  !.http = 200])

\* GET /users/<user_id>/movies
movies_GET ==
  \E user_id \in UserIds :
    \E fav_movies \in get_movies(Store, user_id) :
      Serve(Store, [Request("movies_GET", user_id, 0, None) EXCEPT
                      !.called = TRUE, !.ok = TRUE, !.rows = fav_movies, !.http = 200])

\* POST /users/<user_id>/movies
movies_POST ==
  \E user_id \in UserIds, body \in Bodies(Titles) :
    IF body = None \/ body[1] = None
    THEN Serve(Store, Request("movies_POST", user_id, 0, None))
    ELSE LET title == body[1][1]
         IN  \E payload \in OmdbPayloads(title), fault \in Faults :
               LET new_movie == add_movie(Store, user_id, title, payload,
                                          fault # "omdb", fault # "movie_commit",
                                          fault # "link_commit")
               IN  Serve(new_movie.S,
                         [Request("movies_POST", user_id, 0, Some(title)) EXCEPT
                            !.called = TRUE, !.ok = (new_movie.ret # None),
                            !.movie = new_movie.ret, !.omdb = new_movie.omdb,
                            !.raised = new_movie.raised,
                            !.http = IF new_movie.raised THEN 400 ELSE 200])

movies == movies_GET \/ movies_POST

\* POST /users/<user_id>/movies/<movie_id>/update; the handler does not use
\* user_id.
update ==
  \E movie_id \in MovieIds, body \in Bodies(NewTitles), db_ok \in BOOLEAN :
    IF body = None \/ body[1] = None
    THEN Serve(Store, Request("update", 0, movie_id, None))
    ELSE LET new_title == body[1][1]
             updated_movie == update_movie(Store, movie_id, new_title, db_ok)
         IN  Serve(updated_movie.S,
                   [Request("update", 0, movie_id, Some(new_title)) EXCEPT
                      !.called = TRUE, !.ok = updated_movie.ret,
                      !.db_error = ~db_ok, !.http = 200])

\* POST /users/<user_id>/movies/<movie_id>/delete
delete ==
  \E user_id \in UserIds, movie_id \in MovieIds, db_ok \in BOOLEAN :
    LET deleted_movie == delete_movie(Store, user_id, movie_id, db_ok)
    IN  Serve(deleted_movie.S,
              [Request("delete", user_id, movie_id, None) EXCEPT
                 !.called = TRUE, !.ok = deleted_movie.ret, !.http = 302])

Next == home \/ users \/ movies \/ update \/ delete

Spec == Init /\ [][Next]_vars

\* The requests without the rename.
NextNoRename == home \/ users \/ movies \/ delete

SpecNoRename == Init /\ [][NextNoRename]_vars

(***************************************************************************)
(* Requests served concurrently.  Each commit is one step: SQLite lets one *)
(* connection write at a time, and a SELECT outside a write transaction    *)
(* holds no lock once its rows are read, so the statements of add_movie    *)
(* that lie between two commits interleave with the other threads.         *)
(***************************************************************************)
\* Titles asked for concurrently, spelled as the provider spells them.
ConcTitles == {"Inception", "Matrix"}

\* The movie a thread in add_movie goes on to link.
movie_to_favourite(thread) ==
  IF thread.existing_movie # None THEN thread.existing_movie[1]
  ELSE thread.movie[1]

\* What a thread did to the store; the requests served one at a time stand
\* still.
Run(S, t, thread) ==
  /\ DOMAIN S.Movie \subseteq MovieIds
  /\ User' = S.User
  /\ Movie' = S.Movie
  /\ FavouriteMovie' = S.FavouriteMovie
  /\ threads' = [threads EXCEPT ![t] = thread]
  /\ UNCHANGED <<last, tick>>

\* add_movie, lines 109-115: the lookup of the title.
add_movie_lookup(t) ==
  /\ threads[t].pc = "idle"
  /\ \E user_id \in UserIds, movie_title \in ConcTitles :
       LET existing == {i \in DOMAIN Movie : Movie[i].title = movie_title}
           thread == [IdleThread EXCEPT !.op = "add_movie", !.user_id = user_id,
                                        !.movie_title = movie_title]
       IN  IF Cardinality(existing) > 1
           THEN Run(Store, t, [thread EXCEPT !.pc = "done", !.raised = TRUE])
           ELSE IF existing # {}
           THEN Run(Store, t, [thread EXCEPT !.pc = "link_check",
                                 !.existing_movie = Some(CHOOSE i \in existing : TRUE)])
           ELSE Run(Store, t, [thread EXCEPT !.pc = "fetch"])

\* add_movie, lines 117-137: the provider call and the commit of the new row.
add_movie_fetch(t) ==
  /\ threads[t].pc = "fetch"
  /\ \E payload \in OmdbPayloads(threads[t].movie_title) :
       LET new == fetch_new_movie(Store, threads[t].movie_title, payload, TRUE, TRUE)
       IN  IF new.id = None
           THEN Run(Store, t, [threads[t] EXCEPT !.pc = "done"])
           ELSE Run(new.S, t, [threads[t] EXCEPT !.pc = "link_check", !.movie = new.id])

\* add_movie, lines 140-149: the lookup of the link.
add_movie_link_check(t) ==
  /\ threads[t].pc = "link_check"
  /\ LET movie_id == movie_to_favourite(threads[t])
     IN  IF BagIn(Fav(threads[t].user_id, movie_id), FavouriteMovie)
         THEN Run(Store, t, [threads[t] EXCEPT !.pc = "done", !.ret = Some(movie_id)])
         ELSE Run(Store, t, [threads[t] EXCEPT !.pc = "link_insert"])

\* add_movie, lines 151-163: the insert of the link and its commit.
add_movie_link_insert(t) ==
  /\ threads[t].pc = "link_insert"
  /\ LET movie_id == movie_to_favourite(threads[t])
         favourite == InsertFavourite(FavouriteMovie, Fav(threads[t].user_id, movie_id))
     IN  IF favourite = None
         THEN Run(Store, t, [threads[t] EXCEPT !.pc = "done"])
         ELSE Run([Store EXCEPT !.FavouriteMovie = favourite[1]], t,
                  [threads[t] EXCEPT !.pc = "done", !.ret = Some(movie_id)])

\* delete_movie: one write transaction, from the DELETE of the link to the
\* commit.
delete_movie_call(t) ==
  /\ threads[t].pc = "idle"
  /\ \E user_id \in UserIds, movie_id \in MovieIds :
       LET deleted_movie == delete_movie(Store, user_id, movie_id, TRUE)
       IN  Run(deleted_movie.S, t,
               [IdleThread EXCEPT !.pc = "done", !.op = "delete_movie",
                                  !.user_id = user_id,
                                  !.existing_movie = Some(movie_id),
                                  !.ret = IF deleted_movie.ret THEN Some(movie_id)
                                          ELSE None])

\* The route answers and the thread takes the next request.
respond(t) ==
  /\ threads[t].pc = "done"
  /\ Run(Store, t, IdleThread)

\* The users are registered before the concurrent requests start.
InitConc ==
  /\ User = [i \in UserIds |-> [user_name |-> "Alice"]]
  /\ Movie = <<>>
  /\ FavouriteMovie = EmptyBag
  /\ last = Request("start", 0, 0, None)
  /\ tick = 0
  /\ threads = [t \in Threads |-> IdleThread]

NextConc ==
  \E t \in Threads :
    \/ add_movie_lookup(t)
    \/ add_movie_fetch(t)
    \/ add_movie_link_check(t)
    \/ add_movie_link_insert(t)
    \/ delete_movie_call(t)
    \/ respond(t)

SpecConc == InitConc /\ [][NextConc]_vars

(***************************************************************************)
(* Properties.                                                             *)
(***************************************************************************)
StoreUnchanged == UNCHANGED <<User, Movie, FavouriteMovie>>

\* The Movie rows of a title, and the links of a user to movies of a title.
RowsTitled(table, t) == {i \in DOMAIN table : table[i].title = t}
LinksTitled(favs, table, user_id, t) ==
  {f \in BagToSet(favs) : f.user_id = user_id /\ f.movie_id \in RowsTitled(table, t)}

\* A served POST /users/<user_id>/movies in which add_movie returned a Movie.
Added(request) == request.op = "movies_POST" /\ request.ok

\* C1: add_movie(u, t) served twice in a row, both returning a Movie, leaves
\* exactly one Movie row of the returned title and exactly one link of u to a
\* movie of that title, whatever spelling of the title the caller sent.
C1_AddTwiceOneMovieOneLink ==
  [][ (Added(last) /\ Added(last') /\ last'.user_id = last.user_id
         /\ last'.text = last.text /\ last.user_id \in DOMAIN User)
      => LET t == last'.movie[1].title
         IN  /\ last'.movie[1].id = last.movie[1].id
             /\ Cardinality(RowsTitled(Movie', t)) = 1
             /\ Cardinality(LinksTitled(FavouriteMovie', Movie', last'.user_id, t)) = 1
    ]_vars

\* C2: add_movie(u1, t) then add_movie(u2, t) for distinct users, both
\* returning a Movie, leaves exactly one Movie row of that title and the two
\* links (u1, m), (u2, m), once each, to that one row.
C2_TwoUsersShareOneMovie ==
  [][ (Added(last) /\ Added(last') /\ last'.user_id # last.user_id
         /\ last'.text = last.text /\ {last.user_id, last'.user_id} \subseteq DOMAIN User)
      => LET m == last'.movie[1]
         IN  /\ last.movie[1].id = m.id
             /\ RowsTitled(Movie', m.title) = {m.id}
             /\ CopiesIn(Fav(last.user_id, m.id), FavouriteMovie') = 1
             /\ CopiesIn(Fav(last'.user_id, m.id), FavouriteMovie') = 1
    ]_vars

\* C3: after any sequence of served requests every Movie row is referenced by
\* at least one link.
C3_NoOrphanMovie ==
  \A i \in DOMAIN Movie : LinksOf(FavouriteMovie, i) # {}

\* C4: every link references a User row and a Movie row that exist.
C4_LinksReferenceExistingRows ==
  \A f \in BagToSet(FavouriteMovie) :
    f.user_id \in DOMAIN User /\ f.movie_id \in DOMAIN Movie

\* A served POST .../delete in which delete_movie returned True.
Deleted(request) == request.op = "delete" /\ request.ok

\* C5: a delete_movie(u, m) that returns True removes the link (u, m); if no
\* other user's link to m is left the Movie row m is deleted too, otherwise
\* the Movie row m stays as it was.
C5_DeleteCollectsLastReference ==
  [][ Deleted(last')
      => LET u == last'.user_id
             m == last'.movie_id
             others == {f \in LinksOf(FavouriteMovie, m) : f.user_id # u}
         IN  /\ ~BagIn(Fav(u, m), FavouriteMovie')
             /\ others = {} => m \notin DOMAIN Movie'
             /\ others # {} => /\ m \in DOMAIN Movie
                               /\ m \in DOMAIN Movie'
                               /\ Movie'[m] = Movie[m]
    ]_vars

\* C5 witness: a delete that removed the last link of a movie, whose row is gone.
C5_Witness ==
  /\ Deleted(last)
  /\ last.movie_id \notin DOMAIN Movie
  /\ LinksOf(FavouriteMovie, last.movie_id) = {}

\* C6: delete_movie(u, m) with no link (u, m) in the store returns False and
\* leaves the three tables as they were, whether or not a Movie row m exists
\* and whoever else has it as a favourite.
C6_DeleteWithoutLinkChangesNothing ==
  [][ (last'.op = "delete"
         /\ ~BagIn(Fav(last'.user_id, last'.movie_id), FavouriteMovie))
      => ~last'.ok /\ StoreUnchanged
    ]_vars

\* C6 witness: a refused delete of a movie that exists and is another user's
\* favourite.
C6_Witness ==
  /\ last.op = "delete" /\ ~last.ok
  /\ ~BagIn(Fav(last.user_id, last.movie_id), FavouriteMovie)
  /\ last.movie_id \in DOMAIN Movie
  /\ LinksOf(FavouriteMovie, last.movie_id) # {}

\* C7: without renames, at most one Movie row exists per title.
C7_OneMoviePerTitle ==
  \A i, j \in DOMAIN Movie : Movie[i].title = Movie[j].title => i = j

\* C8: when some Movie row has exactly the requested title, add_movie does not
\* call the provider, does not raise, and returns None or one of the rows of
\* that title.
C8_KnownTitleNeedsNoFetch ==
  [][ (last'.op = "movies_POST" /\ last'.called
         /\ RowsTitled(Movie, last'.text[1]) # {})
      => /\ last'.omdb = "not called"
         /\ ~last'.raised
         /\ last'.ok => last'.movie[1].id \in RowsTitled(Movie, last'.text[1])
    ]_vars

\* C9: when the title is not in the store and the provider call yields None
\* or a payload with Response "False", add_movie returns None and the three
\* tables are as they were.
C9_UnavailableMovieChangesNothing ==
  [][ (last'.op = "movies_POST" /\ last'.called
         /\ RowsTitled(Movie, last'.text[1]) = {}
         /\ last'.omdb \in {"None", "False"})
      => ~last'.ok /\ last'.movie = None /\ StoreUnchanged
    ]_vars

\* C9 witness: an add_movie that the provider answered with Response "False".
C9_Witness ==
  /\ last.op = "movies_POST" /\ last.omdb = "False" /\ ~last.ok
  /\ RowsTitled(Movie, last.text[1]) = {}

\* C10: no link (user id, movie id) is stored twice, and add_movie(u, t) with
\* a Movie row of title t that u already has as a favourite returns that
\* Movie and leaves the three tables as they were.
C10_FavouriteTwiceIsNoOp ==
  /\ [](\A f \in BagToSet(FavouriteMovie) : CopiesIn(f, FavouriteMovie) = 1)
  /\ [][ (last'.op = "movies_POST" /\ last'.called
            /\ LinksTitled(FavouriteMovie, Movie, last'.user_id, last'.text[1]) # {})
         => /\ last'.ok
            /\ Fav(last'.user_id, last'.movie[1].id) \in
                 LinksTitled(FavouriteMovie, Movie, last'.user_id, last'.text[1])
            /\ StoreUnchanged
       ]_vars

\* A served POST .../update in which update_movie was called.
Renaming(request) == request.op = "update" /\ request.called

\* What a rename does to the store: on success exactly the row's title is
\* replaced, on failure nothing changes.
RenameEffect(request) ==
  /\ request.ok => /\ request.movie_id \in DOMAIN Movie
                   /\ Movie' = [Movie EXCEPT ![request.movie_id].title = request.text[1]]
                   /\ UNCHANGED <<User, FavouriteMovie>>
  /\ ~request.ok => StoreUnchanged

\* C11 as stated: update_movie(m, t) returns True exactly when a Movie row m
\* exists; on success only that row's title becomes t, also when another row
\* has title t; with no such row it returns False and the store is unchanged.
C11_RenameSucceedsIffRowExists ==
  [][ Renaming(last')
      => /\ last'.ok <=> last'.movie_id \in DOMAIN Movie
         /\ RenameEffect(last')
    ]_vars

\* C11 amended: update_movie(m, t) returns True exactly when a Movie row m
\* exists and the database raises no error; on success only that row's title
\* becomes t, also when another row has title t; on failure the store is
\* unchanged.
C11_RenameSucceedsIffRowExistsAndNoDbError ==
  [][ Renaming(last')
      => /\ last'.ok <=> (last'.movie_id \in DOMAIN Movie /\ ~last'.db_error)
         /\ RenameEffect(last')
    ]_vars

\* C11 witness: a rename that gave a row the title another row already has.
C11_Witness ==
  /\ Renaming(last) /\ last.ok
  /\ Cardinality(RowsTitled(Movie, last.text[1])) > 1

\* The store after the step.
StoreAfter == [User |-> User', Movie |-> Movie', FavouriteMovie |-> FavouriteMovie']

\* A list of get_movies shows movie m, and shows it under title t only.
ListsUnder(rows, m, t) ==
  /\ \E i \in DOMAIN rows : rows[i].id = m
  /\ \A i \in DOMAIN rows : rows[i].id = m => rows[i].title = t

\* C12: after update_movie(m, t) returned True, get_movies(u) of every user u
\* with a link to m lists m under title t and under no other title, both as
\* computed on the store the rename leaves and as served by the next
\* GET /users/u/movies; the rename leaves the links as they were.
C12_RenameShowsInEveryList ==
  /\ [][ (Renaming(last') /\ last'.ok)
         => /\ FavouriteMovie' = FavouriteMovie
            /\ \A u \in UserIds :
                 BagIn(Fav(u, last'.movie_id), FavouriteMovie)
                 => \A rows \in get_movies(StoreAfter, u) :
                      ListsUnder(rows, last'.movie_id, last'.text[1])
       ]_vars
  /\ [][ (Renaming(last) /\ last.ok /\ last'.op = "movies_GET"
            /\ BagIn(Fav(last'.user_id, last.movie_id), FavouriteMovie))
         => ListsUnder(last'.rows, last.movie_id, last.text[1])
       ]_vars

\* C12 witness: a served list that shows a movie under a title other than
\* the one the provider gave it, the movie being the favourite of two users.
C12_Witness ==
  /\ last.op = "movies_GET"
  /\ \E i \in DOMAIN last.rows :
       /\ \E e \in Catalogue : /\ e.Director = Movie[last.rows[i].id].director
                               /\ e.Title # last.rows[i].title
       /\ Cardinality(LinksOf(FavouriteMovie, last.rows[i].id)) > 1

\* A served add_movie that inserted a new Movie row from the provider's
\* answer and linked it.
AddedNew(request) == Added(request) /\ request.omdb = "True"

\* delete_movie(u, m) run on the store S brings back the store S0, lists
\* included.
Undoes(S, u, m, db_ok, S0) ==
  LET deleted_movie == delete_movie(S, u, m, db_ok)
  IN  /\ deleted_movie.S = S0
      /\ get_movies(deleted_movie.S, u) = get_movies(S0, u)

\* After the delete the Movie row m and the links to it are gone, also from
\* the user's list.
GoneAfter(u, m) ==
  /\ m \notin DOMAIN Movie'
  /\ LinksOf(FavouriteMovie', m) = {}
  /\ \A rows \in get_movies(StoreAfter, u) : \A i \in DOMAIN rows : rows[i].id # m

\* C13 as stated: after add_movie(u, t) that inserted and linked a new Movie
\* m, delete_movie(u, m) brings back the store from before the add (the row
\* and the link gone, get_movies(u) as before), whatever the delete returns.
C13_AddThenDeleteRestores ==
  /\ [][ AddedNew(last')
         => \A db_ok \in BOOLEAN :
              Undoes(StoreAfter, last'.user_id, last'.movie[1].id, db_ok, Store)
       ]_vars
  /\ [][ (AddedNew(last) /\ last'.op = "delete" /\ last'.user_id = last.user_id
            /\ last'.movie_id = last.movie[1].id)
         => GoneAfter(last.user_id, last.movie[1].id)
       ]_vars

\* C13 amended: after add_movie(u, t) that inserted and linked a new Movie m,
\* a delete_movie(u, m) that returns True brings back the store from before
\* the add: the row and the link are gone and get_movies(u) is as before.
C13_AddThenSuccessfulDeleteRestores ==
  /\ [][ AddedNew(last')
         => /\ delete_movie(StoreAfter, last'.user_id, last'.movie[1].id, TRUE).ret
            /\ Undoes(StoreAfter, last'.user_id, last'.movie[1].id, TRUE, Store)
       ]_vars
  /\ [][ (AddedNew(last) /\ Deleted(last') /\ last'.user_id = last.user_id
            /\ last'.movie_id = last.movie[1].id)
         => GoneAfter(last.user_id, last.movie[1].id)
       ]_vars

\* C13 witness: a new movie was just inserted and linked for an existing
\* user, beside another Movie row that was there before.
C13_Witness ==
  /\ AddedNew(last)
  /\ last.user_id \in DOMAIN User
  /\ Cardinality(DOMAIN Movie) > 1

\* C14: every User row has a non-empty user_name.
C14_UserNamesNonEmpty ==
  \A i \in DOMAIN User : User[i].user_name # ""

\* C15: an add_movie that returns None leaves the store as it was before the
\* call: no new Movie row and no new link.
C15_FailedAddChangesNothing ==
  [][ (last'.op = "movies_POST" /\ last'.called /\ ~last'.ok)
      => StoreUnchanged
    ]_vars

\* C16: a delete_movie that returns False leaves the store as it was: the
\* link (u, m) is still there if it was, and so is the Movie row m.
C16_FailedDeleteChangesNothing ==
  [][ (last'.op = "delete" /\ last'.called /\ ~last'.ok)
      => /\ StoreUnchanged
         /\ CopiesIn(Fav(last'.user_id, last'.movie_id), FavouriteMovie')
              = CopiesIn(Fav(last'.user_id, last'.movie_id), FavouriteMovie)
         /\ last'.movie_id \in DOMAIN Movie => last'.movie_id \in DOMAIN Movie'
    ]_vars

\* C16 witness: a delete_movie(u, m) returned False although the link (u, m)
\* exists and is the only link to the Movie row m (the database raised): the
\* link and the row are both still stored.
C16_Witness ==
  /\ last.op = "delete" /\ last.called /\ ~last.ok
  /\ BagIn(Fav(last.user_id, last.movie_id), FavouriteMovie)
  /\ LinksOf(FavouriteMovie, last.movie_id) = {Fav(last.user_id, last.movie_id)}
  /\ last.movie_id \in DOMAIN Movie

\* C19: a delete_movie(u, m) that returns True leaves every User row, every
\* link other than (u, m) and every Movie row other than m as they were, and
\* adds nothing.
C19_DeleteFrame ==
  [][ Deleted(last')
      => /\ User' = User
         /\ \A f \in BagToSet(FavouriteMovie) \cup BagToSet(FavouriteMovie') :
              f # Fav(last'.user_id, last'.movie_id)
                => CopiesIn(f, FavouriteMovie') = CopiesIn(f, FavouriteMovie)
         /\ CopiesIn(Fav(last'.user_id, last'.movie_id), FavouriteMovie') = 0
         /\ DOMAIN Movie' \subseteq DOMAIN Movie
         /\ \A i \in DOMAIN Movie :
              i # last'.movie_id => i \in DOMAIN Movie' /\ Movie'[i] = Movie[i]
    ]_vars

\* C19 witness: after a successful delete_movie(u, m) that also deleted the
\* Movie row m, the user still has a link to another movie, another Movie row
\* is stored and a User row exists.
C19_Witness ==
  /\ Deleted(last)
  /\ last.movie_id \notin DOMAIN Movie
  /\ \E f \in BagToSet(FavouriteMovie) :
       f.user_id = last.user_id /\ f.movie_id \in DOMAIN Movie
  /\ User # <<>>

\* Thread t is in add_movie for a title whose lookup found no row, and has
\* inserted the Movie row `movie`.
InsertedAfterMiss(thread) ==
  /\ thread.op = "add_movie"
  /\ thread.existing_movie = None
  /\ thread.movie # None

\* C17: nothing closes the race of two add_movie calls for one title: the
\* thread that missed the lookup inserts a new Movie row whatever the store
\* holds by then, so when another thread that missed the lookup of the same
\* title has inserted its row in between, the store holds two Movie rows of
\* that title.
C17_InsertAfterMissAddsARow ==
  [][ \A t \in Threads :
        (threads[t].pc = "fetch" /\ threads'[t].movie # None)
        => LET id == threads'[t].movie[1]
               title == Movie'[id].title
           IN  /\ id \notin DOMAIN Movie
               /\ RowsTitled(Movie', title) = RowsTitled(Movie, title) \cup {id}
               /\ \A o \in Threads \ {t} :
                    ( /\ InsertedAfterMiss(threads[o])
                      /\ threads[o].movie_title = threads[t].movie_title
                      /\ threads[o].movie[1] \in RowsTitled(Movie, title) )
                    => Cardinality(RowsTitled(Movie', title)) >= 2
    ]_vars

\* C17 witness: two threads asked for the same title, both missed the lookup
\* and both inserted: two Movie rows carry the title.
C17_Witness ==
  \E t \in Threads, o \in Threads :
    /\ t # o
    /\ InsertedAfterMiss(threads[t]) /\ InsertedAfterMiss(threads[o])
    /\ threads[t].movie_title = threads[o].movie_title
    /\ threads[t].movie # threads[o].movie
    /\ {threads[t].movie[1], threads[o].movie[1]}
         \subseteq RowsTitled(Movie, threads[t].movie_title)

\* A thread whose add_movie found the Movie row by its title and returned it.
LinkedExisting(thread) ==
  /\ thread.op = "add_movie" /\ thread.pc = "done"
  /\ thread.existing_movie # None /\ thread.ret # None

\* C18, first part: the link of an add_movie that found the Movie row by its
\* title never points at a row that a concurrent delete_movie has deleted.
C18_LinkedMovieExists ==
  \A t \in Threads :
    ( /\ LinkedExisting(threads[t])
      /\ BagIn(Fav(threads[t].user_id, threads[t].existing_movie[1]), FavouriteMovie) )
    => threads[t].existing_movie[1] \in DOMAIN Movie

\* C18, second part: when no call is under way no Movie row is without a link.
C18_NoUnlinkedMovieAtRest ==
  (\A t \in Threads : threads[t].pc \in {"idle", "done"})
  => \A i \in DOMAIN Movie : LinksOf(FavouriteMovie, i) # {}

\* C18: under interleaving of add_movie(u2, t) that links an existing Movie m
\* with delete_movie(u1, m) that removes the last other link, no link (u2, m)
\* is stored whose Movie row m has been deleted, and once both calls are over
\* Movie m is not stored without a link.
C18_AddLinkVersusDelete ==
  C18_LinkedMovieExists /\ C18_NoUnlinkedMovieAtRest

====
